---- MODULE Spec2Model ----
(***************************************************************************)
(* A model of the libmonado-rs wrapper (src/lib.rs): the session Monado,   *)
(* its construction and drop, the enumerations clients() and devices(),    *)
(* device_from_role(), and the Client view's operations.  The wrapper's    *)
(* operations are translated from src/lib.rs; the runtime behind the       *)
(* foreign entry points of MonadoApi is the environment.                   *)
(***************************************************************************)
EXTENDS Integers, Sequences, FiniteSets, TLC

(* ---------------------------------------------------------------- bounds *)

\* Sessions constructed successfully in one behaviour.
MaxSessions == 2
\* Client applications the runtime knows: ids 1..MaxClients.
MaxClients == 2
\* Foreign return values looked at (SpecCodes): the raw values run from
\* MaxRaw below ErrorOperationFailed up to MaxRaw, MaxLog of them in a row.
MaxRaw == 2
MaxLog == 2

(* ------------------------------------------------------- MndResult codes *)

Success == 0
ErrorInvalidVersion == -1
ErrorInvalidValue == -2
ErrorConnectingFailed == -3
ErrorOperationFailed == -4

\* The values of enum MndResult.
MndResults ==
  {Success, ErrorInvalidVersion, ErrorInvalidValue, ErrorConnectingFailed,
   ErrorOperationFailed}

Errors == MndResults \ {Success}

\* Result<T, MndResult>: Ok(v) and Err(e).
Ok(v) == [ok |-> TRUE, err |-> Success, val |-> v]
Err(e) == [ok |-> FALSE, err |-> e, val |-> <<>>]

\* MndResult::to_result: Ok(()) for Success, Err(self) for everything else.
to_result(r) == IF r = Success THEN Ok(<<>>) ELSE Err(r)

(* -------------------------------------------------------------- versions *)

Version(major, minor, patch) == [major |-> major, minor |-> minor, patch |-> patch]

\* Versions a library may report.
Versions ==
  {Version(1, 0, 0), Version(1, 0, 1), Version(1, 1, 0), Version(2, 0, 0),
   Version(0, 1, 0)}

\* A requirement "1.0.0" (a caret requirement) in place of "=1.0.0".
crate_api_version_caret(v) == v.major = 1

\* crate_api_version().matches(v): VersionReq "=1.0.0" against a version with
\* no pre-release part, which is what Version::new builds.
crate_api_version_matches(v) == v.major = 1 /\ v.minor = 0 /\ v.patch = 0

(* ----------------------------------------------------------------- state *)

VARIABLES
  root,          \* Monado.root of the live session value; 0: no session value
  nCreated,      \* handles the runtime has handed out so far
  rtAlive,       \* runtime: handles created and not destroyed
  destroyCalls,  \* handle -> number of mnd_root_destroy calls made for it
  rtClients,     \* runtime: the live client list (distinct ids, in order)
  rtSnapshot,    \* runtime: the list stored by the last update_client_list
  rtFlags,       \* runtime: client id -> state bits
  rtDevices,     \* runtime: device table, a sequence of [id, name]
  rtRoles,       \* runtime: role -> device id (i32), -1 when unassigned
  clientViews,   \* Client values the caller holds (their ids)
  deviceViews,   \* Device values the caller holds ([id, name])
  pc,            \* position of the operation in progress ("idle": none)
  loc,           \* locals of the operation in progress
  calls,         \* foreign calls the current (or last) operation issued
  ret,           \* the last operation and what it returned
  codeLog        \* SpecCodes: raw return values and what they were read as

vars ==
  <<root, nCreated, rtAlive, destroyCalls, rtClients, rtSnapshot, rtFlags,
    rtDevices, rtRoles, clientViews, deviceViews, pc, loc,
    calls, ret, codeLog>>

rtVars == <<rtClients, rtSnapshot, rtFlags, rtDevices, rtRoles>>
viewVars == <<clientViews, deviceViews>>
sessVars == <<root, nCreated, rtAlive, destroyCalls>>

ClientIds == 1..MaxClients
Handles == 1..MaxSessions

Range(s) == {s[i] : i \in 1..Len(s)}

(* ------------------------------------------------------------ bit flags *)

\* ClientState::ClientIoActive.
ClientIoActive == 32

\* Whether the single bit b is set in the pattern x, and x with b flipped.
HasBit(x, b) == (x \div b) % 2 = 1
FlipBit(x, b) == IF HasBit(x, b) THEN x - b ELSE x + b

\* A test that looks at the lowest bit whatever the flag.
contains_low_bit(state, flag) == state % 2 = 1

\* FlagSet::contains for a single flag.
contains(state, flag) == HasBit(state, flag)

(* ----------------------------------------------------------------- text *)

\* C strings are sequences of bytes; the model's bytes are ASCII letters and
\* 255, a byte no UTF-8 text holds.  CStr::to_str succeeds on valid UTF-8.
Utf8Valid(bytes) == \A i \in 1..Len(bytes) : bytes[i] < 128

\* .to_str().map_err(|_| MndResult::ErrorInvalidValue) and the owned copy.
to_str(bytes) == IF Utf8Valid(bytes) THEN Ok(bytes) ELSE Err(ErrorInvalidValue)

(* ------------------------------------------- 32-bit words and `as u32` *)

\* A 32-bit word is kept as its signed reading; `as u32` keeps the bits, so
\* it is the same word, read unsigned: ULt is the unsigned order on words.
ULt(a, b) == IF (a >= 0) = (b >= 0) THEN a < b ELSE b < 0

(* -------------------------------------------------- the runtime's data *)

\* The name the runtime holds for a client: client 2's is not valid text.
ClientName(c) == IF c = 2 THEN <<255>> ELSE <<65, 64 + c>>

\* The state bits clients start with: client 1 is the primary application
\* and session-active, the others are session-active and focused.
InitFlags(c) == IF c = 1 THEN 3 ELSE 10

Device(id, name) == [id |-> id, name |-> name]

\* Device tables of the runtime: ids equal to positions, ids differing from
\* positions, and a table with a device whose name is not valid text.
DeviceTables ==
  {<<Device(0, <<72>>), Device(1, <<76>>)>>,
   <<Device(5, <<72>>), Device(0, <<76>>)>>,
   <<Device(1, <<72>>), Device(0, <<255>>)>>}

Roles == {"head", "left-hand", "nonexistent-role"}

\* The role table a device table comes with: "head" is its first device,
\* "left-hand" its second; -1 is what an unassigned role resolves to.
RolesOf(table) ==
  [r \in Roles |->
     IF r = "head" THEN table[1].id
     ELSE IF r = "left-hand" THEN table[2].id
     ELSE -1]

(* ----------------------------------------------- the runtime's answers *)

\* The result codes an entry point may return for a request the runtime can
\* serve (any: the connection to the service may fail) and for one it cannot.
Codes(servable) == IF servable THEN MndResults ELSE Errors

\* mnd_root_get_number_clients and mnd_root_get_client_id_at_index read the
\* list the last mnd_root_update_client_list stored: the count is its
\* length, the id at an index below the count its entry there.
NumberClients == Len(rtSnapshot)

\* The per-client entry points serve the clients connected now.
ClientServable(id) == id \in Range(rtClients)

\* mnd_root_get_device_count and mnd_root_get_device_info(device_index).
DeviceCount == Len(rtDevices)
DeviceServable(index) == ULt(index, Len(rtDevices))
DeviceInfo(index) == rtDevices[index + 1]

(* ----------------------------------------------- the wrapper's records *)

\* Client { monado, id } and Device { _monado, id, name }.
Client(monado, id) == [monado |-> monado, id |-> id]
\* A Client as the caller holds it, kept with the id the runtime returned
\* when it was built (from), which is no field of the struct.
Built(view, from) == [monado |-> view.monado, id |-> view.id, from |-> from]
DeviceView(monado, id, name) == [monado |-> monado, id |-> id, name |-> name]
\* A Device as the caller holds it, kept with the info the runtime returned
\* when it was built (from), which is no field of the struct.
BuiltDevice(view, from) ==
  [monado |-> view.monado, id |-> view.id, name |-> view.name, from |-> from]

\* A foreign call: the entry point, the handle it was given, its argument
\* besides the handle, the code it returned, what the runtime wrote to the
\* out parameter, and whether the handle was alive in the runtime when the
\* call was made.
Call(fn, h, arg, rc, out) ==
  [fn |-> fn, root |-> h, arg |-> arg, rc |-> rc, out |-> out,
   live |-> h \in rtAlive]

NoLoc ==
  [self |-> Built(Client(0, 0), 0), active |-> FALSE, count |-> 0, index |-> 0,
   acc |-> <<>>, device_id |-> 0]

Returned(op, inp, res) == [op |-> op, inp |-> inp, done |-> TRUE, res |-> res]
Running(op, inp) == [op |-> op, inp |-> inp, done |-> FALSE, res |-> Err(Success)]

(* ------------------------------------------------------------------ Init *)

Init ==
  /\ root = 0
  /\ nCreated = 0
  /\ rtAlive = {}
  /\ destroyCalls = [h \in Handles |-> 0]
  /\ rtClients = [i \in 1..MaxClients |-> i]
  /\ rtSnapshot = <<>>
  /\ rtFlags = [c \in ClientIds |-> InitFlags(c)]
  /\ rtDevices \in DeviceTables
  /\ rtRoles = RolesOf(rtDevices)
  /\ clientViews = {}
  /\ deviceViews = {}
  /\ pc = "idle"
  /\ loc = NoLoc
  /\ calls = <<>>
  /\ ret = Returned("none", <<>>, Ok(<<>>))
  /\ codeLog = <<>>

(* -------------------------------------------------------- Monado::create *)

\* create with the handle made before the version is checked.
create_handle_first(loads, version, rc) ==
  IF ~loads
  THEN [trace |-> <<"load">>, res |-> Err(ErrorConnectingFailed)]
  ELSE IF ~to_result(rc).ok
  THEN [trace |-> <<"load", "mnd_root_create">>, res |-> to_result(rc)]
  ELSE [trace |-> <<"load", "mnd_root_create", "mnd_api_get_version">>,
        res |-> IF crate_api_version_matches(version) THEN Ok(<<>>)
                ELSE Err(ErrorInvalidVersion)]

\* The foreign calls Monado::create makes and what it returns, for a library
\* that loads or not, the version it reports and the code mnd_root_create
\* returns: load, then the version check, then mnd_root_create.
create(loads, version, rc) ==
  IF ~loads
  THEN [trace |-> <<"load">>, res |-> Err(ErrorConnectingFailed)]
  ELSE IF ~crate_api_version_matches(version)
  THEN [trace |-> <<"load", "mnd_api_get_version">>,
        res |-> Err(ErrorInvalidVersion)]
  ELSE [trace |-> <<"load", "mnd_api_get_version", "mnd_root_create">>,
        res |-> to_result(rc)]

\* Monado::create(libmonado_so): the caller constructs a session.  A
\* successful mnd_root_create hands out a new handle and a failed one none;
\* the Monado an Ok carries owns the handle.
Create ==
  /\ pc = "idle"
  /\ root = 0
  /\ nCreated < MaxSessions
  /\ \E loads \in BOOLEAN, version \in Versions, rc \in MndResults :
       LET run == create(loads, version, rc)
           h == nCreated + 1
           made == rc = Success /\ "mnd_root_create" \in Range(run.trace)
       IN /\ calls' = [i \in 1..Len(run.trace) |->
                         IF run.trace[i] = "mnd_root_create"
                         THEN Call(run.trace[i], 0, 0, rc, IF made THEN h ELSE 0)
                         ELSE Call(run.trace[i], 0, 0, Success, 0)]
          /\ ret' = Returned("create", <<loads, version>>, run.res)
          /\ root' = IF run.res.ok THEN h ELSE 0
          /\ nCreated' = IF made THEN h ELSE nCreated
          /\ rtAlive' = IF made THEN rtAlive \cup {h} ELSE rtAlive
          /\ rtSnapshot' = IF made THEN <<>> ELSE rtSnapshot
  /\ UNCHANGED <<destroyCalls, rtClients, rtFlags, rtDevices, rtRoles,
                 viewVars, pc, loc, codeLog>>

(* ---------------------------------------------------------- Drop, borrows *)

\* Views that hold the handle itself and no borrow of the session.
Borrowed_never == FALSE

\* Client<'m> and Device<'m> hold &'m Monado: while a view exists the
\* session is borrowed and cannot be moved or dropped.
Borrowed == clientViews # {} \/ deviceViews # {}

\* A Monado with no Drop implementation.
drop_nothing(h) == <<>>

\* impl Drop for Monado: the foreign calls drop() makes for the handle.
drop(h) == <<Call("mnd_root_destroy", h, 0, Success, 0)>>

\* The caller releases the views it holds.
ReleaseViews ==
  /\ pc = "idle"
  /\ Borrowed
  /\ clientViews' = {}
  /\ deviceViews' = {}
  /\ UNCHANGED <<sessVars, rtVars, pc, loc, calls, ret, codeLog>>

\* The session value goes out of scope: drop() runs, once.  It returns
\* nothing: ret stays the last operation's.
Dispose ==
  /\ pc = "idle"
  /\ root # 0
  /\ ~Borrowed
  /\ calls' = drop(root)
  /\ destroyCalls' =
       [h \in Handles |->
          destroyCalls[h] +
          Cardinality({i \in 1..Len(calls') :
                         calls'[i].fn = "mnd_root_destroy" /\ calls'[i].root = h})]
  /\ rtAlive' = rtAlive \ {calls'[i].root : i \in 1..Len(calls')}
  /\ root' = 0
  /\ UNCHANGED <<nCreated, rtVars, clientViews, deviceViews, pc, loc, ret,
                 codeLog>>

(* ------------------------------------------------- the `?` of the wrapper *)

\* A result that is not looked at: the operation goes on whatever it is.
try_unchecked(res) == TRUE

\* `expr?`: the operation goes on after Ok and returns the Err otherwise.
try(res) == res.ok

\* An enumeration that stops at a failed step and returns what it has.
abort_truncated(res, built) == Ok(built)

\* What an operation that stops at a failed step returns: the error, and
\* nothing of what it had built.
abort(res, built) == Err(res.err)

\* An operation ends: it returns res to the caller.
Finish(op, inp, res) ==
  /\ pc' = "idle"
  /\ loc' = NoLoc
  /\ ret' = Returned(op, inp, res)

\* A loop that takes one turn more than there are slots.
loop_ends_late(index, count) == index = count

\* A loop that is over after its first turn.
loop_ends_at_first(index, count) == TRUE

\* `for (index, slot) in vec.iter_mut().enumerate()` over a vector of count
\* slots: the turn for index is the last one when index + 1 is count.
loop_ends(index, count) == index + 1 = count

Ids(views) == [i \in 1..Len(views) |-> views[i].id]

(* ------------------------------------------------------- Monado::clients *)

\* A loop that asks for index 0 at every position.
clients_index_first(position) == 0

\* The index clients() passes for the position it fills.
clients_index(position) == position

\* A view that keeps the position in place of the id.
clients_item_position(monado, position, id) == Client(monado, position)

\* The view clients() puts at a position, for the id the runtime returned.
clients_item(monado, position, id) == Client(monado, id)

\* A loop that refreshes the list before every lookup.
loop_list_refreshed == rtClients

\* The list the loop's lookups read: the loop calls nothing but
\* mnd_root_get_client_id_at_index, so it is the list the first call stored.
loop_list == rtSnapshot

\* clients() returns res: the caller keeps the views of an Ok.
ClientsEnd(res) ==
  /\ Finish("clients", <<>>, res)
  /\ clientViews' = IF res.ok THEN clientViews \cup Range(res.val)
                    ELSE clientViews
  /\ UNCHANGED deviceViews

\* clients(), first call: mnd_root_update_client_list(self.root).  The
\* runtime stores its current client list in the handle.
ClientsRefresh ==
  /\ pc = "idle"
  /\ root # 0
  /\ \E rc \in Codes(TRUE) :
       /\ calls' = <<Call("mnd_root_update_client_list", root, 0, rc,
                          IF rc = Success THEN rtClients ELSE <<>>)>>
       /\ rtSnapshot' = IF rc = Success THEN rtClients ELSE rtSnapshot
       /\ IF try(to_result(rc))
          THEN /\ pc' = "clients_count"
               /\ loc' = NoLoc
               /\ ret' = Running("clients", <<>>)
               /\ UNCHANGED viewVars
          ELSE ClientsEnd(abort(to_result(rc), <<>>))
  /\ UNCHANGED <<sessVars, rtClients, rtFlags, rtDevices, rtRoles, codeLog>>

\* clients(), second call: mnd_root_get_number_clients(self.root, &mut
\* client_count); client_count is 0 unless the runtime writes it.
ClientsCount ==
  /\ pc = "clients_count"
  /\ \E rc \in Codes(TRUE) :
       LET client_count == IF rc = Success THEN NumberClients ELSE 0 IN
       /\ calls' = Append(calls, Call("mnd_root_get_number_clients", root, 0,
                                      rc, client_count))
       /\ IF try(to_result(rc))
          THEN IF client_count = 0
               THEN ClientsEnd(Ok(<<>>))
               ELSE /\ pc' = "clients_index"
                    /\ loc' = [NoLoc EXCEPT !.count = client_count]
                    /\ UNCHANGED <<ret, viewVars>>
          ELSE ClientsEnd(abort(to_result(rc), <<>>))
  /\ UNCHANGED <<sessVars, rtVars, codeLog>>

\* clients(), one turn of the loop: mnd_root_get_client_id_at_index(self.root,
\* index as u32, &mut id); id is 0 unless the runtime writes it.
ClientsIndex ==
  /\ pc = "clients_index"
  /\ LET index == clients_index(loc.index)
         list == loop_list
     IN
     \E rc \in Codes(ULt(index, Len(list))) :
       LET id == IF rc = Success THEN list[index + 1] ELSE 0
           acc == Append(loc.acc, Built(clients_item(root, loc.index, id), id))
       IN /\ calls' = Append(calls, Call("mnd_root_get_client_id_at_index",
                                         root, index, rc, id))
          /\ rtSnapshot' = list
          /\ IF try(to_result(rc))
             THEN IF loop_ends(loc.index, loc.count)
                  THEN ClientsEnd(Ok(acc))
                  ELSE /\ loc' = [loc EXCEPT !.index = @ + 1, !.acc = acc]
                       /\ UNCHANGED <<pc, ret, viewVars>>
             ELSE ClientsEnd(abort(to_result(rc), loc.acc))
  /\ UNCHANGED <<sessVars, rtClients, rtFlags, rtDevices, rtRoles, codeLog>>

(* ------------------------------------------------------- Monado::devices *)

\* devices() or device_from_role() returns res: the caller keeps the views
\* of an Ok.
DevicesEnd(op, inp, res) ==
  /\ Finish(op, inp, res)
  /\ deviceViews' = IF res.ok THEN deviceViews \cup Range(res.val) ELSE deviceViews
  /\ UNCHANGED clientViews

\* devices(), first call: mnd_root_get_device_count(self.root, &mut
\* device_count); device_count is 0 unless the runtime writes it.
DevicesCount ==
  /\ pc = "idle"
  /\ root # 0
  /\ \E rc \in Codes(TRUE) :
       LET device_count == IF rc = Success THEN DeviceCount ELSE 0 IN
       /\ calls' = <<Call("mnd_root_get_device_count", root, 0, rc, device_count)>>
       /\ IF try(to_result(rc))
          THEN IF device_count = 0
               THEN DevicesEnd("devices", <<>>, Ok(<<>>))
               ELSE /\ pc' = "devices_info"
                    /\ loc' = [NoLoc EXCEPT !.count = device_count]
                    /\ ret' = Running("devices", <<>>)
                    /\ UNCHANGED viewVars
          ELSE DevicesEnd("devices", <<>>, abort(to_result(rc), <<>>))
  /\ UNCHANGED <<sessVars, rtVars, codeLog>>

\* What the wrapper holds after mnd_root_get_device_info(self.root, index,
\* &mut id, &mut c_name) returned rc: id is 0 and c_name null (no bytes read)
\* unless the runtime wrote them.
device_info(index, rc) ==
  IF rc = Success THEN DeviceInfo(index) ELSE Device(0, <<>>)

\* devices(), one turn of the loop: the info call, then the name's copy.
DevicesInfo ==
  /\ pc = "devices_info"
  /\ \E rc \in Codes(DeviceServable(loc.index)) :
       LET info == device_info(loc.index, rc)
           name == to_str(info.name)
           acc == Append(loc.acc,
                         BuiltDevice(DeviceView(root, info.id, name.val), info))
       IN /\ calls' = Append(calls, Call("mnd_root_get_device_info", root,
                                         loc.index, rc, info))
          /\ IF ~try(to_result(rc))
             THEN DevicesEnd("devices", <<>>, abort(to_result(rc), loc.acc))
             ELSE IF ~try(name)
             THEN DevicesEnd("devices", <<>>, abort(name, loc.acc))
             ELSE IF loop_ends(loc.index, loc.count)
             THEN DevicesEnd("devices", <<>>, Ok(acc))
             ELSE /\ loc' = [loc EXCEPT !.index = @ + 1, !.acc = acc]
                  /\ UNCHANGED <<pc, ret, viewVars>>
  /\ UNCHANGED <<sessVars, rtVars, codeLog>>

(* ---------------------------------------------- Monado::device_from_role *)

\* device_from_role(role_name), first call: mnd_root_get_device_from_role(
\* self.root, c_name, &mut device_id); device_id is -1 unless the runtime
\* writes it.
RoleLookup ==
  /\ pc = "idle"
  /\ root # 0
  /\ \E role_name \in Roles, rc \in Codes(TRUE) :
       LET device_id == IF rc = Success THEN rtRoles[role_name] ELSE -1 IN
       /\ calls' = <<Call("mnd_root_get_device_from_role", root, role_name, rc,
                          device_id)>>
       /\ IF try(to_result(rc))
          THEN /\ pc' = "role_info"
               /\ loc' = [NoLoc EXCEPT !.device_id = device_id]
               /\ ret' = Running("device_from_role", <<role_name>>)
               /\ UNCHANGED viewVars
          ELSE DevicesEnd("device_from_role", <<role_name>>,
                          abort(to_result(rc), <<>>))
  /\ UNCHANGED <<sessVars, rtVars, codeLog>>

\* A lookup that asks for the first device when the role gave none.
role_index_or_first(device_id) == IF device_id < 0 THEN 0 ELSE device_id

\* The index device_from_role passes to the info call: `device_id as u32`,
\* the word the role lookup left in device_id, whatever it is.
role_index(device_id) == device_id

\* device_from_role, second call: mnd_root_get_device_info(self.root,
\* device_id as u32, &mut id, &mut c_name), then the name's copy.
RoleInfo ==
  /\ pc = "role_info"
  /\ \E rc \in Codes(DeviceServable(role_index(loc.device_id))) :
       LET info == device_info(role_index(loc.device_id), rc)
           name == to_str(info.name)
       IN /\ calls' = Append(calls, Call("mnd_root_get_device_info", root,
                                         role_index(loc.device_id), rc, info))
          /\ IF ~try(to_result(rc))
             THEN DevicesEnd(ret.op, ret.inp, abort(to_result(rc), <<>>))
             ELSE IF ~try(name)
             THEN DevicesEnd(ret.op, ret.inp, abort(name, <<>>))
             ELSE DevicesEnd(ret.op, ret.inp,
                             Ok(<<BuiltDevice(DeviceView(root, info.id, name.val),
                                              info)>>))
  /\ UNCHANGED <<sessVars, rtVars, codeLog>>

(* ---------------------------------------------------------------- Device *)

\* A Device that asks the runtime for its device's current id and name.
device_fields_live(self) ==
  IF \E d \in Range(rtDevices) : d.id = self.id
  THEN LET d == CHOOSE d \in Range(rtDevices) : d.id = self.id
       IN <<d.id, d.name>>
  ELSE <<self.id, <<>> >>

\* Reading a Device (its public fields, or Debug::fmt): the id and the name
\* the value owns.
device_fields(self) == <<self.id, self.name>>

\* The caller reads a Device it holds; no foreign call is made.
DeviceRead ==
  /\ pc = "idle"
  /\ \E self \in deviceViews :
       /\ calls' = <<>>
       /\ Finish("device", <<self>>, Ok(device_fields(self)))
  /\ UNCHANGED <<sessVars, rtVars, viewVars, codeLog>>

(* ---------------------------------------------------------------- Client *)

\* A client operation of one foreign call ends.
ClientEnd(op, inp, res) ==
  /\ Finish(op, inp, res)
  /\ UNCHANGED <<sessVars, rtVars, viewVars, codeLog>>

\* Client::name: mnd_root_get_client_name(self.monado.root, self.id, &mut
\* string), then the text's check and copy.
name(self, rc) ==
  IF try(to_result(rc))
  THEN to_str(IF rc = Success THEN ClientName(self.id) ELSE <<>>)
  ELSE abort(to_result(rc), <<>>)

ClientGetName ==
  /\ pc = "idle"
  /\ \E self \in clientViews :
       \E rc \in Codes(ClientServable(self.id)) :
         /\ calls' = <<Call("mnd_root_get_client_name", self.monado, self.id, rc,
                            IF rc = Success THEN ClientName(self.id) ELSE <<>>)>>
         /\ ClientEnd("name", <<self>>, name(self, rc))

\* A flag set that keeps the bits of the six flags only.
new_truncated(bits) == bits % 64

\* FlagSet::new_unchecked(bits): the flag set holds the bits as given.
new_unchecked(bits) == bits

\* Client::state: mnd_root_get_client_state(self.monado.root, self.id, &mut
\* state); state is 0 unless the runtime writes it.
state(self, rc) ==
  IF try(to_result(rc))
  THEN Ok(<<new_unchecked(IF rc = Success THEN rtFlags[self.id] ELSE 0)>>)
  ELSE abort(to_result(rc), <<>>)

state_call(self, rc) ==
  Call("mnd_root_get_client_state", self.monado, self.id, rc,
       IF rc = Success THEN rtFlags[self.id] ELSE 0)

ClientGetState ==
  /\ pc = "idle"
  /\ \E self \in clientViews :
       \E rc \in Codes(ClientServable(self.id)) :
         /\ calls' = <<state_call(self, rc)>>
         /\ ClientEnd("state", <<self>>, state(self, rc))

\* Client::set_primary and Client::set_focused: one call, its result
\* returned as it is.  What the runtime does with the command is not part
\* of the model.
set_primary(self, rc) == to_result(rc)
set_focused(self, rc) == to_result(rc)

ClientSetPrimary ==
  /\ pc = "idle"
  /\ \E self \in clientViews :
       \E rc \in Codes(ClientServable(self.id)) :
         /\ calls' = <<Call("mnd_root_set_client_primary", self.monado, self.id,
                            rc, 0)>>
         /\ ClientEnd("set_primary", <<self>>, set_primary(self, rc))

ClientSetFocused ==
  /\ pc = "idle"
  /\ \E self \in clientViews :
       \E rc \in Codes(ClientServable(self.id)) :
         /\ calls' = <<Call("mnd_root_set_client_focused", self.monado, self.id,
                            rc, 0)>>
         /\ ClientEnd("set_focused", <<self>>, set_focused(self, rc))

\* A set_io_active that toggles when it read the flag set.
needs_toggle_if_set(flags, active) == contains(flags, ClientIoActive)

\* A set_io_active that toggles whatever it read.
needs_toggle_always(flags, active) == TRUE

\* A set_io_active that never toggles.
needs_toggle_never(flags, active) == FALSE

\* Whether set_io_active(active) goes on to toggle, given the state read.
needs_toggle(flags, active) == contains(flags, ClientIoActive) # active

\* Client::set_io_active(active), first part: self.state()?, then the test
\* of the io-active flag.
IoRead ==
  /\ pc = "idle"
  /\ \E self \in clientViews, active \in BOOLEAN :
       \E rc \in Codes(ClientServable(self.id)) :
         LET st == state(self, rc) IN
         /\ calls' = <<state_call(self, rc)>>
         /\ IF ~try(st)
            THEN Finish("set_io_active", <<self, active>>, abort(st, <<>>))
            ELSE IF needs_toggle(st.val[1], active)
            THEN /\ pc' = "io_toggle"
                 /\ loc' = [NoLoc EXCEPT !.self = self, !.active = active]
                 /\ ret' = Running("set_io_active", <<self, active>>)
            ELSE Finish("set_io_active", <<self, active>>, Ok(<<>>))
  /\ UNCHANGED <<sessVars, rtVars, viewVars, codeLog>>

\* Client::set_io_active, second part: mnd_root_toggle_client_io_active(
\* self.monado.root, self.id).  A successful call flips the client's
\* io-active bit in the runtime; the call is recorded with the state bits
\* the runtime holds for the client when it returns.
IoToggle ==
  /\ pc = "io_toggle"
  /\ \E rc \in Codes(ClientServable(loc.self.id)) :
       /\ rtFlags' = IF rc = Success
                     THEN [rtFlags EXCEPT ![loc.self.id] = FlipBit(@, ClientIoActive)]
                     ELSE rtFlags
       /\ calls' = Append(calls, Call("mnd_root_toggle_client_io_active",
                                      loc.self.monado, loc.self.id, rc,
                                      rtFlags'[loc.self.id]))
       /\ Finish(ret.op, ret.inp, to_result(rc))
  /\ UNCHANGED <<sessVars, rtClients, rtSnapshot, rtDevices, rtRoles,
                 viewVars, codeLog>>

(* ----------------------------------------------------------- the runtime *)

wrapperVars ==
  <<sessVars, viewVars, pc, loc, calls, ret, codeLog>>

\* A client application connects to the runtime.
ClientConnects ==
  /\ \E c \in ClientIds \ Range(rtClients) : rtClients' = Append(rtClients, c)
  /\ UNCHANGED <<wrapperVars, rtSnapshot, rtFlags, rtDevices, rtRoles>>

\* A client application disconnects.
ClientDisconnects ==
  /\ \E i \in 1..Len(rtClients) :
       rtClients' = SubSeq(rtClients, 1, i - 1) \o
                    SubSeq(rtClients, i + 1, Len(rtClients))
  /\ UNCHANGED <<wrapperVars, rtSnapshot, rtFlags, rtDevices, rtRoles>>

\* Another actor (a second controller of the runtime) toggles the io-active
\* state of a client.
ExternalToggle ==
  /\ \E c \in ClientIds :
       rtFlags' = [rtFlags EXCEPT ![c] = FlipBit(@, ClientIoActive)]
  /\ UNCHANGED <<wrapperVars, rtClients, rtSnapshot, rtDevices, rtRoles>>

\* The names the runtime gives devices.
DeviceNames == {<<72>>, <<76>>}

\* The runtime renames a device.
DeviceRenamed ==
  /\ \E i \in 1..Len(rtDevices), n \in DeviceNames :
       /\ n # rtDevices[i].name
       /\ rtDevices' = [rtDevices EXCEPT ![i].name = n]
  /\ UNCHANGED <<wrapperVars, rtClients, rtSnapshot, rtFlags, rtRoles>>

\* A device goes away: the runtime drops it from its table and from the
\* roles it had.
DeviceRemoved ==
  /\ \E i \in 1..Len(rtDevices) :
       /\ rtDevices' = SubSeq(rtDevices, 1, i - 1) \o
                        SubSeq(rtDevices, i + 1, Len(rtDevices))
       /\ rtRoles' = [r \in Roles |->
                        IF rtRoles[r] = rtDevices[i].id THEN -1 ELSE rtRoles[r]]
  /\ UNCHANGED <<wrapperVars, rtClients, rtSnapshot, rtFlags>>

\* State bit patterns of the runtime: flags of the six, and patterns with
\* the bits 64 and 128 that are none of them.
StatePatterns == {3, 10, 75, 160}

\* The runtime changes the state of a client.
StateChanges ==
  /\ \E c \in ClientIds, bits \in StatePatterns :
       /\ bits # rtFlags[c]
       /\ rtFlags' = [rtFlags EXCEPT ![c] = bits]
  /\ UNCHANGED <<wrapperVars, rtClients, rtSnapshot, rtDevices, rtRoles>>

(* --------------------------------------------------------- specification *)

\* The wrapper against a runtime whose client list and flags only the
\* wrapper's own calls change.
Next ==
  \/ Create
  \/ Dispose
  \/ ReleaseViews
  \/ ClientsRefresh
  \/ ClientsCount
  \/ ClientsIndex
  \/ DevicesCount
  \/ DevicesInfo
  \/ RoleLookup
  \/ RoleInfo
  \/ ClientGetName
  \/ ClientGetState
  \/ ClientSetPrimary
  \/ ClientSetFocused
  \/ IoRead
  \/ IoToggle

Spec == Init /\ [][Next]_vars

\* A session just constructed, no operation made on it yet.
InitSession ==
  /\ root = 1
  /\ nCreated = 1
  /\ rtAlive = {1}
  /\ destroyCalls = [h \in Handles |-> 0]
  /\ rtClients = [i \in 1..MaxClients |-> i]
  /\ rtSnapshot = <<>>
  /\ rtFlags = [c \in ClientIds |-> InitFlags(c)]
  /\ rtDevices = <<Device(5, <<72>>), Device(0, <<76>>)>>
  /\ rtRoles = RolesOf(rtDevices)
  /\ clientViews = {}
  /\ deviceViews = {}
  /\ pc = "idle"
  /\ loc = NoLoc
  /\ calls = <<>>
  /\ ret = Returned("create", <<TRUE, Version(1, 0, 0)>>, Ok(<<>>))
  /\ codeLog = <<>>

\* The client operations of one session against a runtime whose clients
\* connect and disconnect at any moment.
NextClients ==
  \/ ReleaseViews
  \/ ClientsRefresh
  \/ ClientsCount
  \/ ClientsIndex
  \/ ClientGetName
  \/ ClientGetState
  \/ ClientSetPrimary
  \/ ClientSetFocused
  \/ ClientConnects
  \/ ClientDisconnects

SpecClients == InitSession /\ [][NextClients]_vars

\* set_io_active on the clients of one session against a runtime whose
\* io-active flags another actor toggles at any moment.
NextRace ==
  \/ ClientsRefresh
  \/ ClientsCount
  \/ ClientsIndex
  \/ IoRead
  \/ IoToggle
  \/ ExternalToggle

SpecRace == InitSession /\ [][NextRace]_vars

\* The device operations of one session against a runtime whose devices
\* are renamed and removed at any moment.
NextDevices ==
  \/ ReleaseViews
  \/ DevicesCount
  \/ DevicesInfo
  \/ RoleLookup
  \/ RoleInfo
  \/ DeviceRead
  \/ DeviceRenamed
  \/ DeviceRemoved

SpecDevices == InitSession /\ [][NextDevices]_vars

\* state() on the clients of one session against a runtime that changes
\* their state at any moment.
NextState ==
  \/ ClientsRefresh
  \/ ClientsCount
  \/ ClientsIndex
  \/ ClientGetState
  \/ StateChanges

SpecState == InitSession /\ [][NextState]_vars

(* ------------------------------------------------- foreign return values *)

\* The i32 values a foreign function may hand back.
RawCodes == (ErrorOperationFailed - MaxRaw)..MaxRaw

\* What `.to_result()` yields for a foreign function's return value.  The
\* entry points are declared to return MndResult: a value of the enum is
\* that variant; any other value is not a valid MndResult and what the
\* program does with it is undefined: Ok, or an Err of any variant or of
\* the value itself.
foreign_result(raw) ==
  IF raw \in MndResults
  THEN {to_result(raw)}
  ELSE {Ok(<<>>)} \cup {Err(e) : e \in Errors \cup {raw}}

\* A foreign function returns raw and the wrapper reads its result.
ForeignReturn ==
  /\ Len(codeLog) < MaxLog
  /\ \E raw \in RawCodes :
       \E res \in foreign_result(raw) :
         codeLog' = Append(codeLog, [raw |-> raw, res |-> res])
  /\ UNCHANGED <<sessVars, rtVars, viewVars, pc, loc, calls, ret>>

SpecCodes == InitSession /\ [][ForeignReturn]_vars

(* ================================================================ claims *)

\* The entry points that take a client id.
ClientFns ==
  {"mnd_root_get_client_name", "mnd_root_get_client_state",
   "mnd_root_set_client_primary", "mnd_root_set_client_focused",
   "mnd_root_toggle_client_io_active"}

\* The entry points that take the runtime handle.
HandleFns ==
  ClientFns \cup
  {"mnd_root_update_client_list", "mnd_root_get_number_clients",
   "mnd_root_get_client_id_at_index", "mnd_root_get_device_count",
   "mnd_root_get_device_info", "mnd_root_get_device_from_role"}

Fns(trace) == [i \in 1..Len(trace) |-> trace[i].fn]

\* The calls on record are those of the operation ret names.
CallsOf(op) ==
  /\ ret.op = op
  /\ calls # <<>>
  /\ calls[1].fn =
       CASE op = "create" -> "load"
         [] op = "clients" -> "mnd_root_update_client_list"
         [] op = "devices" -> "mnd_root_get_device_count"
         [] op = "device_from_role" -> "mnd_root_get_device_from_role"
         [] op = "name" -> "mnd_root_get_client_name"
         [] op = "set_primary" -> "mnd_root_set_client_primary"
         [] op = "set_focused" -> "mnd_root_set_client_focused"
         [] OTHER -> "mnd_root_get_client_state"

Operations ==
  {"create", "clients", "devices", "device_from_role", "name", "state",
   "set_primary", "set_focused", "set_io_active"}

\* C1: every handle a successful construction obtained is destroyed exactly
\* once: no mnd_root_destroy call while its session lives, one when the
\* session has been disposed, never two, whatever operations ran (and
\* failed) in between; a handle never created is never destroyed.
C1_DestroyedExactlyOnce ==
  \A h \in Handles :
    /\ destroyCalls[h] <= 1
    /\ (h <= nCreated /\ h # root) => destroyCalls[h] = 1
    /\ (h > nCreated \/ h = root) => destroyCalls[h] = 0

\* A session disposed right after an operation on it failed: its handle
\* has its one destroy call.
C1_Witness ==
  /\ root = 0
  /\ nCreated >= 1
  /\ destroyCalls[nCreated] = 1
  /\ calls # <<>> /\ calls[1].fn = "mnd_root_destroy"
  /\ ret.op \in Operations \ {"create"}
  /\ ret.done /\ ~ret.res.ok

\* C2: a construction from a library that loads and reports a version other
\* than 1.0.0 fails with InvalidVersion after the version query: it makes
\* no mnd_root_create call, yields no session, and no handle exists for
\* which a destroy call could be (or was) made.
C2_VersionMismatchFails ==
  (CallsOf("create") /\ ret.inp[1] /\ ret.inp[2] # Version(1, 0, 0)) =>
    /\ ret.res = Err(ErrorInvalidVersion)
    /\ Fns(calls) = <<"load", "mnd_api_get_version">>
    /\ root = 0
    /\ rtAlive = {}
    /\ \A h \in Handles : destroyCalls[h] = IF h <= nCreated THEN 1 ELSE 0

\* A construction refused for version 1.0.1, after an earlier session was
\* created and disposed.
C2_Witness ==
  /\ CallsOf("create")
  /\ ret.inp = <<TRUE, Version(1, 0, 1)>>
  /\ ret.res = Err(ErrorInvalidVersion)
  /\ nCreated = 1

\* C3: Monado::create loads the library, then queries the version, then
\* calls mnd_root_create, once; a stage that fails ends it (a library that
\* does not load: ConnectingFailed and no call; a version mismatch:
\* InvalidVersion and no mnd_root_create; a failed mnd_root_create: its
\* error and no session), and every handle alive in the runtime is the one
\* the live session owns.
C3_CreateStages ==
  /\ rtAlive = (IF root = 0 THEN {} ELSE {root})
  /\ CallsOf("create") =>
       LET loads == ret.inp[1]
           matches == ret.inp[2] = Version(1, 0, 0)
           full == <<"load", "mnd_api_get_version", "mnd_root_create">>
       IN /\ ret.done
          /\ ~loads =>
               Fns(calls) = <<"load">> /\ ret.res = Err(ErrorConnectingFailed)
          /\ (loads /\ ~matches) =>
               /\ Fns(calls) = <<"load", "mnd_api_get_version">>
               /\ ret.res = Err(ErrorInvalidVersion)
          /\ (loads /\ matches) =>
               /\ Fns(calls) = full
               /\ ret.res = to_result(calls[3].rc)
          /\ ret.res.ok <=> root # 0
          /\ ret.res.ok => Fns(calls) = full /\ calls[3].out = root

\* A construction whose mnd_root_create failed: all three stages ran, no
\* session and no handle.
C3_Witness ==
  /\ CallsOf("create")
  /\ Len(calls) = 3
  /\ calls[3].rc = ErrorOperationFailed
  /\ ret.res = Err(ErrorOperationFailed)
  /\ root = 0 /\ rtAlive = {}

\* C4: every foreign call that takes the runtime handle is made on a
\* handle that mnd_root_create has handed out and mnd_root_destroy has not
\* yet been called on.
C4_CallsWithinLifetime ==
  \A i \in 1..Len(calls) :
    calls[i].fn \in HandleFns \cup {"mnd_root_destroy"} =>
      /\ calls[i].live
      /\ calls[i].root \in 1..nCreated

\* A Client view of the second session queries the runtime after the first
\* session was destroyed.
C4_Witness ==
  /\ calls # <<>>
  /\ calls[1].fn = "mnd_root_get_client_state"
  /\ calls[1].root = 2
  /\ calls[1].live
  /\ destroyCalls[1] = 1

\* C5: a successful clients() against a runtime reporting N clients makes N
\* index lookups, for the indices 0..N-1, and yields N views of this
\* session, the i-th with the id returned for index i; the N ids are
\* pairwise distinct.
C5_ClientsYieldsCount ==
  (CallsOf("clients") /\ ret.done /\ ret.res.ok) =>
    LET views == ret.res.val
        N == calls[2].out
    IN /\ Len(views) = N
       /\ Len(calls) = 2 + N
       /\ \A i \in 1..N :
            /\ calls[2 + i].fn = "mnd_root_get_client_id_at_index"
            /\ calls[2 + i].arg = i - 1
            /\ views[i].id = calls[2 + i].out
            /\ views[i].monado = root
       /\ \A i, j \in 1..N : views[i].id = views[j].id => i = j

\* clients() returned two views, the first for client 2.
C5_Witness ==
  /\ CallsOf("clients") /\ ret.done /\ ret.res.ok
  /\ Len(ret.res.val) = 2
  /\ ret.res.val[1].id = 2

\* C6: the count and the ids of one clients() invocation are those of the
\* list the runtime stored at that invocation's refresh call, also when the
\* runtime's live list changes before the last index lookup.
C6_SingleSnapshot ==
  /\ pc = "clients_index" =>
       /\ loc.count = Len(calls[1].out)
       /\ Ids(loc.acc) = SubSeq(calls[1].out, 1, loc.index)
  /\ (CallsOf("clients") /\ ret.done /\ ret.res.ok) =>
       Ids(ret.res.val) = calls[1].out

\* In the middle of the loop, one id read and at least one to come, the
\* runtime's live list is no longer the one the refresh stored.
C6_Witness ==
  /\ pc = "clients_index"
  /\ loc.index >= 1
  /\ rtClients # calls[1].out

\* C7 as stated: every client-scoped foreign call carries an id of the list
\* the most recent refresh stored.
C7_OnlyLatestSnapshot ==
  \A i \in 1..Len(calls) :
    calls[i].fn \in ClientFns => calls[i].arg \in Range(rtSnapshot)

\* C7, amended: a Client view stays usable after later refreshes; every
\* client-scoped foreign call is made on the handle of the view's session
\* and carries the id the runtime returned when the view was built.
C7_IdOfTheViewsSnapshot ==
  \A op \in {"name", "state", "set_primary", "set_focused", "set_io_active"} :
    CallsOf(op) =>
      \A i \in 1..Len(calls) :
        calls[i].fn \in ClientFns =>
          /\ calls[i].arg = ret.inp[1].from
          /\ calls[i].root = ret.inp[1].monado

\* A view from an earlier clients() queries the runtime with an id that the
\* list of the most recent refresh does not hold.
C7_Witness ==
  /\ CallsOf("name")
  /\ calls[1].arg = ret.inp[1].from
  /\ calls[1].arg \notin Range(rtSnapshot)

\* C8: a clients() or devices() in which a foreign call returned a code
\* other than Success returns an error and no views.
C8_NoPartialEnumeration ==
  \A op \in {"clients", "devices"} :
    (CallsOf(op) /\ ret.done /\ \E i \in 1..Len(calls) : calls[i].rc # Success) =>
      /\ ~ret.res.ok
      /\ ret.res.val = <<>>

\* clients() failed at its second index lookup, after one view was built.
C8_Witness ==
  /\ CallsOf("clients") /\ ret.done
  /\ Len(calls) = 4
  /\ calls[3].rc = Success
  /\ calls[4].rc # Success
  /\ ~ret.res.ok

\* C9: in every operation a foreign call that returns a code other than
\* Success is the operation's last call, and the operation returns the
\* error of that code.
C9_ErrorsPropagate ==
  \A op \in Operations :
    CallsOf(op) =>
      /\ \A i \in 1..(Len(calls) - 1) : calls[i].rc = Success
      /\ calls[Len(calls)].rc # Success =>
           ret.done /\ ret.res = Err(calls[Len(calls)].rc)

\* set_io_active read the state, called the toggle, and the toggle failed.
C9_Witness ==
  /\ CallsOf("set_io_active")
  /\ Len(calls) = 2
  /\ calls[2].fn = "mnd_root_toggle_client_io_active"
  /\ calls[2].rc = ErrorInvalidValue
  /\ ret.res = Err(ErrorInvalidValue)

\* The codes the enum defines: 0 is read as success and -1, -2, -3, -4 as
\* the errors InvalidVersion, InvalidValue, ConnectingFailed,
\* OperationFailed.
DefinedCodesMapped ==
  \A i \in 1..Len(codeLog) :
    LET raw == codeLog[i].raw
        res == codeLog[i].res
    IN /\ raw = 0 => res.ok
       /\ raw = -1 => res = Err(ErrorInvalidVersion)
       /\ raw = -2 => res = Err(ErrorInvalidValue)
       /\ raw = -3 => res = Err(ErrorConnectingFailed)
       /\ raw = -4 => res = Err(ErrorOperationFailed)

\* C10: the mapping of the defined codes, and every other negative code
\* read as OperationFailed.
C10_UnknownIsOperationFailed ==
  /\ DefinedCodesMapped
  /\ \A i \in 1..Len(codeLog) :
       (codeLog[i].raw < 0 /\ codeLog[i].raw \notin MndResults) =>
         codeLog[i].res = Err(ErrorOperationFailed)

\* The code -5 was returned and read as an error that is not
\* OperationFailed, after -3 was read as ConnectingFailed.
C10_Witness ==
  /\ Len(codeLog) = 2
  /\ codeLog[1] = [raw |-> -3, res |-> Err(ErrorConnectingFailed)]
  /\ codeLog[2] = [raw |-> -5, res |-> Err(-5)]

\* The io-active flag the runtime holds for the client of a view.
IoActive(self) == HasBit(rtFlags[self.id], ClientIoActive)

\* C11: with the wrapper the only actor on the flags, when set_io_active(a)
\* has returned success the runtime's io-active flag of that client is a.
C11_SetSemantics ==
  (ret.op = "set_io_active" /\ ret.done /\ ret.res.ok) =>
    IoActive(ret.inp[1]) = ret.inp[2]

\* set_io_active(false) found the flag set, toggled and returned success:
\* the flag is now clear.
C11_Witness ==
  /\ CallsOf("set_io_active")
  /\ ret.done /\ ret.res.ok
  /\ ret.inp[2] = FALSE
  /\ Len(calls) = 2
  /\ contains(calls[1].out, ClientIoActive)
  /\ ~IoActive(ret.inp[1])

\* A step in which set_io_active is invoked again, right after an
\* invocation on the same client with the same value has returned.
IoInvokedAgain ==
  /\ pc = "idle"
  /\ ret.op = "set_io_active" /\ ret.done
  /\ calls' # calls
  /\ ret'.op = "set_io_active"
  /\ ret'.inp = ret.inp

C13_WrongWhenToggledBetween ==
  [][(pc = "io_toggle" /\ pc' = "idle" /\ ret'.res.ok) =>
       /\ HasBit(calls[1].out, ClientIoActive) # loc.active
       /\ (HasBit(rtFlags'[loc.self.id], ClientIoActive) = loc.active) <=>
          (IoActive(loc.self) = HasBit(calls[1].out, ClientIoActive))]_vars

\* set_io_active(true) read the flag clear, its toggle call succeeded, and
\* the flag the toggle left is clear: it was set in between.
C13_Witness ==
  /\ CallsOf("set_io_active")
  /\ ret.done /\ ret.res.ok
  /\ ret.inp[2] = TRUE
  /\ Len(calls) = 2
  /\ ~HasBit(calls[1].out, ClientIoActive)
  /\ calls[2].rc = Success
  /\ ~HasBit(calls[2].out, ClientIoActive)

\* The device of the runtime's table that has the id.
DeviceOfId(id) == CHOOSE d \in Range(rtDevices) : d.id = id

\* C14: when device_from_role(role) succeeds for a role a device is
\* registered under, the view has the id the runtime maps to the role and
\* the name of the device with that id.
C14_RoleViewIsRoleDevice ==
  (CallsOf("device_from_role") /\ ret.done /\ ret.res.ok
     /\ rtRoles[ret.inp[1]] # -1) =>
    /\ ret.res.val[1].id = rtRoles[ret.inp[1]]
    /\ ret.res.val[1].name = DeviceOfId(rtRoles[ret.inp[1]]).name

\* device_from_role("left-hand") succeeded on a table whose ids are not
\* the positions and returned a device that is not the role's.
C14_Witness ==
  /\ CallsOf("device_from_role")
  /\ ret.inp = <<"left-hand">>
  /\ ret.done /\ ret.res.ok
  /\ rtRoles["left-hand"] = 0
  /\ calls[2].arg = 0
  /\ ret.res.val[1].id = 5
  /\ ret.res.val[1].name # DeviceOfId(0).name

\* device_from_role has returned, and its role lookup had succeeded
\* leaving the device id at -1: no device maps to the role.
RoleUnmapped ==
  /\ CallsOf("device_from_role")
  /\ ret.done
  /\ calls[1].rc = Success
  /\ calls[1].out = -1

\* C15 as stated: when no device maps to the role, device_from_role fails
\* with OperationFailed.
C15_UnmappedIsOperationFailed ==
  RoleUnmapped => ret.res = Err(ErrorOperationFailed)

\* C15, amended: when no device maps to the role, device_from_role asks for
\* the info at index -1 as u32, fails with the error that call returns and
\* returns no view.
C15_UnmappedFailsAsInfoCall ==
  RoleUnmapped =>
    /\ Len(calls) = 2
    /\ calls[2].fn = "mnd_root_get_device_info"
    /\ calls[2].arg = -1
    /\ calls[2].rc # Success
    /\ ret.res = Err(calls[2].rc)
    /\ ret.res.val = <<>>

\* device_from_role("nonexistent-role") failed with InvalidValue, the code
\* the info call returned for the index.
C15_Witness ==
  /\ RoleUnmapped
  /\ ret.inp = <<"nonexistent-role">>
  /\ calls[2].rc = ErrorInvalidValue
  /\ ret.res = Err(ErrorInvalidValue)

\* C16: a Device keeps the id and the name the runtime returned when it was
\* built, whatever the runtime does to the device afterwards, and reading
\* it yields those values without a foreign call.
C16_DeviceIsSnapshot ==
  /\ \A v \in deviceViews : v.id = v.from.id /\ v.name = v.from.name
  /\ (ret.op = "device" /\ ret.done) =>
       /\ calls = <<>>
       /\ ret.res = Ok(<<ret.inp[1].from.id, ret.inp[1].from.name>>)

\* A Device was read after the runtime renamed or removed its device: the
\* name read is not one the runtime holds for that id now.
C16_Witness ==
  /\ ret.op = "device" /\ ret.done
  /\ ret.inp[1] \in deviceViews
  /\ ret.res.val[2] = ret.inp[1].from.name
  /\ \A d \in Range(rtDevices) :
       d.id = ret.inp[1].id => d.name # ret.res.val[2]

\* C17: every state() makes one mnd_root_get_client_state call for its
\* client and returns Ok of exactly the bits the runtime holds at that call,
\* or the call's error.
C17_StateIsFresh ==
  [][(ret'.op = "state" /\ <<calls, ret>>' # <<calls, ret>>) =>
       /\ Len(calls') = 1
       /\ calls'[1].fn = "mnd_root_get_client_state"
       /\ calls'[1].arg = ret'.inp[1].id
       /\ ret'.res = IF calls'[1].rc = Success
                     THEN Ok(<<rtFlags[ret'.inp[1].id]>>)
                     ELSE Err(calls'[1].rc)]_vars

\* state() returned a pattern with bit 64, which is none of the six flags
\* and which the runtime set after the session was made.
C17_Witness ==
  /\ CallsOf("state")
  /\ ret.done /\ ret.res.ok
  /\ ret.res.val[1] = 75
  /\ calls[1].out = 75

\* C18: the foreign calls of a clients() invocation are, in this order, one
\* mnd_root_update_client_list, one mnd_root_get_number_clients and
\* mnd_root_get_client_id_at_index for the indices 0, 1, ... below the count
\* read, and nothing else; an invocation that returns success has made all
\* count of them, and with a count of 0 it returns the empty sequence after
\* the count call.
C18_ClientsCallOrder ==
  CallsOf("clients") =>
    LET count == calls[2].out IN
    /\ calls[1].fn = "mnd_root_update_client_list"
    /\ Len(calls) >= 2 => calls[2].fn = "mnd_root_get_number_clients"
    /\ \A i \in 3..Len(calls) :
         /\ calls[i].fn = "mnd_root_get_client_id_at_index"
         /\ calls[i].arg = i - 3
         /\ i - 3 < count
    /\ (ret.done /\ ret.res.ok) =>
         /\ Len(calls) = 2 + count
         /\ Len(ret.res.val) = count
    /\ (Len(calls) >= 2 /\ calls[2].rc = Success /\ count = 0) =>
         /\ Len(calls) = 2
         /\ ret.done /\ ret.res = Ok(<<>>)

\* clients() has returned two views after a refresh, a count of 2 and the
\* lookups of index 0 and index 1.
C18_Witness ==
  /\ CallsOf("clients")
  /\ ret.done /\ ret.res.ok
  /\ Fns(calls) = <<"mnd_root_update_client_list",
                    "mnd_root_get_number_clients",
                    "mnd_root_get_client_id_at_index",
                    "mnd_root_get_client_id_at_index">>
  /\ calls[2].out = 2
  /\ calls[3].arg = 0 /\ calls[4].arg = 1
  /\ Len(ret.res.val) = 2

\* clients() has returned the empty sequence after a count of 0, with no
\* lookup made.
ClientsEmpty ==
  /\ CallsOf("clients")
  /\ Len(calls) = 2
  /\ calls[2].rc = Success /\ calls[2].out = 0
  /\ ret.done /\ ret.res = Ok(<<>>)

\* C19: a set_io_active(a) invocation makes one mnd_root_get_client_state
\* call and after it, when that call succeeded, one
\* mnd_root_toggle_client_io_active call if and only if the io-active bit it
\* read differs from a; when the bit read equals a it returns success
\* after the read.
C19_ToggleIffDiffers ==
  CallsOf("set_io_active") =>
    LET read == calls[1]
        differs == HasBit(read.out, ClientIoActive) # ret.inp[2]
    IN /\ read.fn = "mnd_root_get_client_state"
       /\ read.arg = ret.inp[1].id
       /\ Len(calls) <= 2
       /\ Len(calls) = 2 =>
            /\ calls[2].fn = "mnd_root_toggle_client_io_active"
            /\ calls[2].arg = ret.inp[1].id
            /\ read.rc = Success /\ differs
       /\ (read.rc = Success /\ differs) =>
            IF ret.done THEN Len(calls) = 2 ELSE pc = "io_toggle"
       /\ (read.rc = Success /\ ~differs) =>
            /\ Len(calls) = 1
            /\ ret.done /\ ret.res = Ok(<<>>)

\* set_io_active(true) read the flag clear, made the toggle call and
\* returned success.
C19_Witness ==
  /\ CallsOf("set_io_active")
  /\ ret.done /\ ret.res.ok
  /\ ret.inp[2] = TRUE
  /\ Fns(calls) = <<"mnd_root_get_client_state",
                    "mnd_root_toggle_client_io_active">>
  /\ ~HasBit(calls[1].out, ClientIoActive)

\* C20: the foreign calls of a devices() invocation are, in this order, one
\* mnd_root_get_device_count and mnd_root_get_device_info for the indices
\* 0, 1, ... below the count read, and nothing else (no refresh of the
\* client list); an invocation that returns success has made all count of
\* them and yields count views, the i-th with the id and the name the i-th
\* info call returned.
C20_DevicesCallOrder ==
  CallsOf("devices") =>
    LET count == calls[1].out IN
    /\ calls[1].fn = "mnd_root_get_device_count"
    /\ \A i \in 2..Len(calls) :
         /\ calls[i].fn = "mnd_root_get_device_info"
         /\ calls[i].arg = i - 2
         /\ i - 2 < count
    /\ (ret.done /\ ret.res.ok) =>
         /\ Len(calls) = 1 + count
         /\ Len(ret.res.val) = count
         /\ \A k \in 1..count :
              /\ ret.res.val[k].id = calls[k + 1].out.id
              /\ ret.res.val[k].name = calls[k + 1].out.name

\* devices() has returned two views, of the devices 5 and 0, after a count
\* of 2 and the info calls for index 0 and index 1.
C20_Witness ==
  /\ CallsOf("devices")
  /\ ret.done /\ ret.res.ok
  /\ Fns(calls) = <<"mnd_root_get_device_count", "mnd_root_get_device_info",
                    "mnd_root_get_device_info">>
  /\ calls[2].arg = 0 /\ calls[3].arg = 1
  /\ Ids(ret.res.val) = <<5, 0>>
  /\ ret.res.val[1].name = calls[2].out.name

====
